---- MODULE Spec2Model ----
(***************************************************************************)
(* Nx monorepo detection of the node provider (providers/node/nx.rs):      *)
(* app-name resolution, project-config loading from the two schema         *)
(* generations, output-path and start-command synthesis, and the serde     *)
(* encoding of the configuration types.                                    *)
(*                                                                         *)
(* The functions are pure queries over a filesystem snapshot (app) and an  *)
(* environment snapshot (env).  A behaviour picks a snapshot in Init and   *)
(* then performs calls; call records the last call and ret its outcome.    *)
(***************************************************************************)
EXTENDS Integers, Sequences, FiniteSets, TLC

VARIABLES app, env, call, ret, value, encoded, decoded

vars == <<app, env, call, ret, value, encoded, decoded>>

(***************************************************************************)
(* Option and Result                                                       *)
(***************************************************************************)
None == [some |-> FALSE]

Some(x) == [some |-> TRUE, v |-> x]

Ok(x) == [ok |-> TRUE, v |-> x]

Err(e) == [ok |-> FALSE, e |-> e]

(***************************************************************************)
(* serde_json::Value.  Objects are functions from keys to values; the only *)
(* array used is the empty one.                                            *)
(***************************************************************************)
JNull == [t |-> "null"]

JBool(b) == [t |-> "bool", b |-> b]

JNum(n) == [t |-> "num", n |-> n]

JStr(s) == [t |-> "str", s |-> s]

JArr == [t |-> "arr"]

JObj(f) == [t |-> "obj", o |-> f]

EmptyObj == JObj(<<>>)

\* Value::get(key): Some(value) for a key of an object, None otherwise
\* (also None when the value is not an object).
Get(j, key) ==
    IF j.t = "obj" /\ key \in DOMAIN j.o THEN Some(j.o[key]) ELSE None

\* Value::as_str
AsStr(j) == IF j.t = "str" THEN Some(j.s) ELSE None

(***************************************************************************)
(* Errors.  An error is its kind and the set of names its message          *)
(* mentions.  A serde_json::Error propagated by `?` keeps serde's own      *)
(* message, which mentions none of them.                                   *)
(***************************************************************************)
NX_APP_NAME_ENV_VAR == "NX_APP_NAME"

SerdeError == [kind |-> "ParseError", mentions |-> {}]

IoError == [kind |-> "Io", mentions |-> {}]

NoTargetsError(nx_app_name) ==
    [kind |-> "NotFound",
     mentions |-> {nx_app_name, "package.json", "nx.targets", "project.json",
                   NX_APP_NAME_ENV_VAR}]

(***************************************************************************)
(* Derived Deserialize.  A struct is read from a JSON object: unknown keys *)
(* are ignored, a field given under both its name and its alias is a       *)
(* duplicate-field error, a missing Option field is None, and an Option    *)
(* field holding null is None.  Each <Struct>_of builds the struct once    *)
(* its fields are read, or fails when one of them failed.                  *)
(***************************************************************************)
Lookup(j, names) ==
    LET present == names \cap DOMAIN j.o IN
    IF present = {} THEN [st |-> "missing"]
    ELSE IF Cardinality(present) > 1 THEN [st |-> "dup"]
    ELSE [st |-> "one", v |-> j.o[CHOOSE k \in present : TRUE]]

De_String(j) == IF j.t = "str" THEN Ok(j.s) ELSE Err(SerdeError)

De_Value(j) == Ok(j)

\* The value of a field that was found, null otherwise.
FieldValue(f) == IF f.st = "one" THEN f.v ELSE JNull

\* A field of a type that is no Option: f is the lookup of the field and r
\* the field's value deserialized.
De_Required(f, r) ==
    IF f.st = "one" THEN r ELSE Err(SerdeError)

\* Ok(x) becomes Ok(Some(x)); an error stays.
MapSome(r) == IF r.ok THEN Ok(Some(r.v)) ELSE r

\* A field of type Option<T>: f is the lookup of the field and r the
\* field's value deserialized as T.
De_Option(f, r) ==
    IF f.st = "dup" THEN Err(SerdeError)
    ELSE IF f.st = "missing" THEN Ok(None)
    ELSE IF f.v.t = "null" THEN Ok(None)
    ELSE MapSome(r)

De_OptionString(f) == De_Option(f, De_String(FieldValue(f)))

De_OptionValue(f) == De_Option(f, De_Value(FieldValue(f)))

NxJson_of(d) ==
    IF d.ok THEN Ok([default_project |-> d.v]) ELSE Err(SerdeError)

De_NxJson(j) ==
    IF j.t # "obj" THEN Err(SerdeError)
    ELSE NxJson_of(De_OptionString(Lookup(j, {"default_project", "defaultProject"})))

NxTargetOptions_of(o, m) ==
    IF o.ok /\ m.ok THEN Ok([output_path |-> o.v, main |-> m.v]) ELSE Err(SerdeError)

De_NxTargetOptions(j) ==
    IF j.t # "obj" THEN Err(SerdeError)
    ELSE NxTargetOptions_of(De_OptionValue(Lookup(j, {"output_path", "outputPath"})),
                            De_OptionString(Lookup(j, {"main"})))

Configuration_of(p) ==
    IF p.ok THEN Ok([production |-> p.v]) ELSE Err(SerdeError)

De_Configuration(j) ==
    IF j.t # "obj" THEN Err(SerdeError)
    ELSE Configuration_of(De_OptionValue(Lookup(j, {"production"})))

De_OptionNxTargetOptions(f) == De_Option(f, De_NxTargetOptions(FieldValue(f)))

De_OptionConfiguration(f) == De_Option(f, De_Configuration(FieldValue(f)))

De_RequiredString(f) == De_Required(f, De_String(FieldValue(f)))

Target_of(e, o, c) ==
    IF e.ok /\ o.ok /\ c.ok
    THEN Ok([executor |-> e.v, options |-> o.v, configurations |-> c.v])
    ELSE Err(SerdeError)

De_Target(j) ==
    IF j.t # "obj" THEN Err(SerdeError)
    ELSE Target_of(De_RequiredString(Lookup(j, {"executor"})),
                   De_OptionNxTargetOptions(Lookup(j, {"options"})),
                   De_OptionConfiguration(Lookup(j, {"configurations"})))

De_RequiredTarget(f) == De_Required(f, De_Target(FieldValue(f)))

De_OptionTarget(f) == De_Option(f, De_Target(FieldValue(f)))

Targets_of(b, s) ==
    IF b.ok /\ s.ok THEN Ok([build |-> b.v, start |-> s.v]) ELSE Err(SerdeError)

De_Targets(j) ==
    IF j.t # "obj" THEN Err(SerdeError)
    ELSE Targets_of(De_RequiredTarget(Lookup(j, {"build"})),
                    De_OptionTarget(Lookup(j, {"start"})))

De_RequiredTargets(f) == De_Required(f, De_Targets(FieldValue(f)))

ProjectJson_of(t) ==
    IF t.ok THEN Ok([targets |-> t.v]) ELSE Err(SerdeError)

De_ProjectJson(j) ==
    IF j.t # "obj" THEN Err(SerdeError)
    ELSE ProjectJson_of(De_RequiredTargets(Lookup(j, {"targets"})))

(***************************************************************************)
(* Derived Serialize.  Every field is written under its Rust name; None is *)
(* written as null, Some(x) as x.                                          *)
(***************************************************************************)
Ser_String(s) == JStr(s)

Ser_Value(j) == j

Ser_OptionString(o) == IF o.some THEN Ser_String(o.v) ELSE JNull

Ser_OptionValue(o) == IF o.some THEN Ser_Value(o.v) ELSE JNull

Ser_NxJson(x) ==
    JObj([default_project |-> Ser_OptionString(x.default_project)])

Ser_NxTargetOptions(x) ==
    JObj([output_path |-> Ser_OptionValue(x.output_path),
          main |-> Ser_OptionString(x.main)])

Ser_Configuration(x) ==
    JObj([production |-> Ser_OptionValue(x.production)])

Ser_OptionNxTargetOptions(o) == IF o.some THEN Ser_NxTargetOptions(o.v) ELSE JNull

Ser_OptionConfiguration(o) == IF o.some THEN Ser_Configuration(o.v) ELSE JNull

Ser_Target(x) ==
    JObj([executor |-> Ser_String(x.executor),
          options |-> Ser_OptionNxTargetOptions(x.options),
          configurations |-> Ser_OptionConfiguration(x.configurations)])

Ser_OptionTarget(o) == IF o.some THEN Ser_Target(o.v) ELSE JNull

Ser_Targets(x) ==
    JObj([build |-> Ser_Target(x.build),
          start |-> Ser_OptionTarget(x.start)])

Ser_ProjectJson(x) == JObj([targets |-> Ser_Targets(x.targets)])

(***************************************************************************)
(* std::path.  A path string is handled as its sequence of characters.     *)
(***************************************************************************)
\* The characters of the path strings that occur as options.main.
Chars(s) ==
    CASE s = "src/main.ts" -> <<"s", "r", "c", "/", "m", "a", "i", "n", ".", "t", "s">>
      [] s = "server" -> <<"s", "e", "r", "v", "e", "r">>
      [] s = "app.server.mjs" -> <<"a", "p", "p", ".", "s", "e", "r", "v", "e", "r", ".", "m", "j", "s">>
      [] s = ".env" -> <<".", "e", "n", "v">>
      [] s = "src/" -> <<"s", "r", "c", "/">>
      [] s = ".." -> <<".", ".">>
      [] s = "" -> <<>>

RECURSIVE Join(_)
\* The string made of the characters cs.
Join(cs) == IF cs = <<>> THEN "" ELSE Head(cs) \o Join(Tail(cs))

\* The character c put in front of the first of the pieces.
PushChar(c, pieces) == << <<c>> \o Head(pieces) >> \o Tail(pieces)

RECURSIVE SplitSlash(_)
\* The pieces of cs between separators, empty pieces included.
SplitSlash(cs) ==
    IF cs = <<>> THEN << <<>> >>
    ELSE IF Head(cs) = "/" THEN << <<>> >> \o SplitSlash(Tail(cs))
    ELSE PushChar(Head(cs), SplitSlash(Tail(cs)))

\* The pieces that are components: an empty piece (a repeated or trailing
\* separator, the root) is none, and "." is one only as the first piece.
ComponentsOf(pieces) ==
    SelectSeq([i \in 1..Len(pieces) |-> [i |-> i, p |-> pieces[i]]],
              LAMBDA c : c.p # <<>> /\ (c.p = <<".">> => c.i = 1))

\* Path::components, without the root.
Components(cs) == ComponentsOf(SplitSlash(cs))

\* The last component when it is a normal one (neither "." nor "..").
LastNormal(comps) ==
    IF comps = <<>> THEN None
    ELSE IF comps[Len(comps)].p = <<".">> \/ comps[Len(comps)].p = <<".", ".">> THEN None
    ELSE Some(comps[Len(comps)].p)

\* Path::file_name
file_name(cs) == LastNormal(Components(cs))

\* The position of the last "." of name, 0 when it has none.
LastDot(name) ==
    LET dots == {i \in 1..Len(name) : name[i] = "."} IN
    IF dots = {} THEN 0 ELSE CHOOSE i \in dots : \A k \in dots : k <= i

\* The file name n up to its last ".", the whole file name when it has no
\* "." or only a leading one.
StemOf(n) ==
    IF ~n.some THEN None
    ELSE IF LastDot(n.v) <= 1 THEN Some(n.v)
    ELSE Some(SubSeq(n.v, 1, LastDot(n.v) - 1))

\* Path::file_stem
file_stem(cs) == StemOf(file_name(cs))

(***************************************************************************)
(* The collaborators: App (the filesystem snapshot) and Environment.       *)
(*   app.nx_json   the file nx.json                                        *)
(*   app.apps_dir  whether the directory apps exists                       *)
(*   app.apps      the subdirectories of apps, each with its two files     *)
(*   app.listing   the subdirectories in the order the filesystem lists    *)
(*   app.dlx       the package manager's dlx command                       *)
(* A file is missing, is text that is no JSON, or holds a JSON value.      *)
(***************************************************************************)
Missing == [st |-> "missing"]

Garbage == [st |-> "text"]

JsonFile(j) == [st |-> "json", json |-> j]

AppFiles(project, package) ==
    [f \in {"project.json", "package.json"} |->
        IF f = "project.json" THEN project ELSE package]

\* The file at a path: <<"nx.json">> or <<"apps", name, file>>.
FileAt(a, path) ==
    IF Len(path) = 1 THEN a.nx_json
    ELSE IF path[2] \in DOMAIN a.apps THEN a.apps[path[2]][path[3]]
    ELSE Missing

includes_file(a, path) == FileAt(a, path).st # "missing"

includes_directory(a, dir) == a.apps_dir

find_directories(a, pattern) == Ok(a.listing)

\* The JSON value a file holds, null when it holds none.
FileJson(f) == IF f.st = "json" THEN f.json ELSE JNull

\* read_json::<T> of the file f, where typed is the file's JSON value
\* deserialized as T: an error when the file is missing or is no JSON.
read_json(f, typed) ==
    IF f.st = "json" THEN typed
    ELSE IF f.st = "text" THEN Err(SerdeError)
    ELSE Err(IoError)

read_json_NxJson(a, path) ==
    read_json(FileAt(a, path), De_NxJson(FileJson(FileAt(a, path))))

read_json_ProjectJson(a, path) ==
    read_json(FileAt(a, path), De_ProjectJson(FileJson(FileAt(a, path))))

read_json_Value(a, path) ==
    read_json(FileAt(a, path), De_Value(FileJson(FileAt(a, path))))

get_config_variable(e, name) == e[name]

get_package_manager_dlx_command(a) == a.dlx

(***************************************************************************)
(* impl Nx.  A function f reads what it needs from the snapshot and hands  *)
(* it to f_with, which holds the function's decisions.                     *)
(***************************************************************************)
\* Option::and_then(|v| v.get(key))
AndThenGet(o, key) == IF o.some THEN Get(o.v, key) ELSE None

\* pkg_json.get("nx").and_then(|nx| nx.get("targets"))
NxTargets(pkg_json) == AndThenGet(Get(pkg_json, "nx"), "targets")

\* The same of a read package.json, None when the read failed.
NxTargetsOfRead(pkg_json) == IF pkg_json.ok THEN NxTargets(pkg_json.v) ELSE None

\* The test of one directory of apps/ in the auto-detection loop: a
\* project.json exists, or a package.json exists, parses and has nx.targets.
AppDirHasConfig(a, app_name) ==
    \/ includes_file(a, <<"apps", app_name, "project.json">>)
    \/ /\ includes_file(a, <<"apps", app_name, "package.json">>)
       /\ NxTargetsOfRead(read_json_Value(a, <<"apps", app_name, "package.json">>)).some

RECURSIVE ScanAppDirs(_, _)
\* for app_dir in app_dirs: the first directory, in the order given, that
\* passes the test.
ScanAppDirs(a, app_dirs) ==
    IF app_dirs = <<>> THEN None
    ELSE IF AppDirHasConfig(a, Head(app_dirs)) THEN Some(Head(app_dirs))
    ELSE ScanAppDirs(a, Tail(app_dirs))

\* get_nx_app_name_with with the first two steps swapped: the default
\* project of nx.json is taken before the override.
get_nx_app_name_default_first(a, app_name, nx_json, app_dirs) ==
    IF nx_json.ok /\ nx_json.v.default_project.some
    THEN Some(nx_json.v.default_project.v)
    ELSE IF app_name.some THEN Some(app_name.v)
    ELSE IF includes_directory(a, "apps") /\ app_dirs.ok
         THEN ScanAppDirs(a, app_dirs.v)
    ELSE None

get_nx_app_name_with(a, app_name, nx_json, app_dirs) ==
    IF app_name.some THEN Some(app_name.v)
    ELSE IF nx_json.ok /\ nx_json.v.default_project.some
         THEN Some(nx_json.v.default_project.v)
    ELSE IF includes_directory(a, "apps") /\ app_dirs.ok
         THEN ScanAppDirs(a, app_dirs.v)
    ELSE None

get_nx_app_name(a, e) ==
    get_nx_app_name_with(a,
                         get_config_variable(e, NX_APP_NAME_ENV_VAR),
                         read_json_NxJson(a, <<"nx.json">>),
                         find_directories(a, "apps/*"))

\* serde_json::from_value(targets)? wrapped as ProjectJson { targets }
FromTargets(t) == IF t.ok THEN Ok([targets |-> t.v]) ELSE Err(t.e)

\* get_nx_project_json_for_app_with with the two sources swapped: the
\* manifest's nx.targets is taken before the legacy file.
get_nx_project_json_manifest_first(nx_app_name, project_json, targets) ==
    IF targets.some THEN FromTargets(De_Targets(targets.v))
    ELSE IF project_json.ok THEN Ok(project_json.v)
    ELSE Err(NoTargetsError(nx_app_name))

get_nx_project_json_for_app_with(nx_app_name, project_json, targets) ==
    IF project_json.ok THEN Ok(project_json.v)
    ELSE IF targets.some THEN FromTargets(De_Targets(targets.v))
    ELSE Err(NoTargetsError(nx_app_name))

get_nx_project_json_for_app(a, nx_app_name) ==
    get_nx_project_json_for_app_with(
        nx_app_name,
        read_json_ProjectJson(a, <<"apps", nx_app_name, "project.json">>),
        NxTargetsOfRead(read_json_Value(a, <<"apps", nx_app_name, "package.json">>)))

\* is_nx_monorepo_with without the test for nx.json.
is_nx_monorepo_without_marker(a, nx_app_name) ==
    IF nx_app_name.some
    THEN get_nx_project_json_for_app(a, nx_app_name.v).ok
    ELSE FALSE

is_nx_monorepo_with(a, nx_app_name) ==
    IF nx_app_name.some
    THEN /\ includes_file(a, <<"nx.json">>)
         /\ get_nx_project_json_for_app(a, nx_app_name.v).ok
    ELSE FALSE

is_nx_monorepo(a, e) == is_nx_monorepo_with(a, get_nx_app_name(a, e))

\* get_nx_output_path_with failing on an output_path that is no string.
get_nx_output_path_strict(nx_app_name, project_json) ==
    IF ~project_json.ok THEN Err(project_json.e)
    ELSE IF /\ project_json.v.targets.build.options.some
            /\ project_json.v.targets.build.options.v.output_path.some
         THEN IF AsStr(project_json.v.targets.build.options.v.output_path.v).some
              THEN Ok(AsStr(project_json.v.targets.build.options.v.output_path.v).v)
              ELSE Err(SerdeError)
    ELSE Ok("dist/apps/" \o nx_app_name)

get_nx_output_path_with(nx_app_name, project_json) ==
    IF ~project_json.ok THEN Err(project_json.e)
    ELSE IF /\ project_json.v.targets.build.options.some
            /\ project_json.v.targets.build.options.v.output_path.some
            /\ AsStr(project_json.v.targets.build.options.v.output_path.v).some
         THEN Ok(AsStr(project_json.v.targets.build.options.v.output_path.v).v)
    ELSE Ok("dist/apps/" \o nx_app_name)

get_nx_output_path(a, nx_app_name) ==
    get_nx_output_path_with(nx_app_name, get_nx_project_json_for_app(a, nx_app_name))

get_nx_build_cmd_with(a, nx_app_name) ==
    IF nx_app_name.some
    THEN Some(get_package_manager_dlx_command(a) \o " nx run " \o nx_app_name.v
              \o ":build:production")
    ELSE None

get_nx_build_cmd(a, e) == get_nx_build_cmd_with(a, get_nx_app_name(a, e))

\* The outcome of a call that panicked (Option::unwrap on None).
Panic == [ok |-> FALSE, e |-> [kind |-> "Panic", mentions |-> {}]]

\* format!("node {output_path}/{file_name}.js") with
\* file_name = file_stem().unwrap()
NodeMainCmd(output_path, stem) ==
    IF stem.some
    THEN Ok(Some("node " \o output_path \o "/" \o Join(stem.v) \o ".js"))
    ELSE Panic

\* The decision of get_nx_start_cmd once the config is loaded.
StartCmdFor(a, nx_app_name, output_path, project_json) ==
    IF project_json.targets.start.some
    THEN IF /\ project_json.targets.start.v.configurations.some
            /\ project_json.targets.start.v.configurations.v.production.some
         THEN Ok(Some(get_package_manager_dlx_command(a) \o " nx run "
                      \o nx_app_name \o ":start:production"))
         ELSE Ok(Some(get_package_manager_dlx_command(a) \o " nx run "
                      \o nx_app_name \o ":start"))
    ELSE IF \/ project_json.targets.build.executor = "@nx/next:build"
            \/ project_json.targets.build.executor = "@nrwl/next:build"
         THEN Ok(Some("cd " \o output_path \o " && npm run start"))
    ELSE IF /\ project_json.targets.build.options.some
            /\ project_json.targets.build.options.v.main.some
         THEN NodeMainCmd(output_path,
                          file_stem(Chars(project_json.targets.build.options.v.main.v)))
    ELSE Ok(Some("node " \o output_path \o "/index.js"))

\* The two `?` of get_nx_start_cmd, then the decision.
get_nx_start_cmd_loaded(a, nx_app_name, output_path, project_json) ==
    IF ~output_path.ok THEN Err(output_path.e)
    ELSE IF ~project_json.ok THEN Err(project_json.e)
    ELSE StartCmdFor(a, nx_app_name, output_path.v, project_json.v)

get_nx_start_cmd_with(a, monorepo, nx_app_name) ==
    IF ~monorepo THEN Ok(None)
    ELSE IF nx_app_name.some
         THEN get_nx_start_cmd_loaded(a, nx_app_name.v,
                                      get_nx_output_path(a, nx_app_name.v),
                                      get_nx_project_json_for_app(a, nx_app_name.v))
    ELSE Ok(None)

get_nx_start_cmd(a, e) ==
    get_nx_start_cmd_with(a, is_nx_monorepo(a, e), get_nx_app_name(a, e))

(***************************************************************************)
(* Snapshots.                                                              *)
(***************************************************************************)
\* The number of subdirectories of apps/ the resolution snapshots draw from.
MaxApps == 2

\* Directory names, in alphabetical order.
AppDirNames == <<"api", "web", "zed">>

DirNames == {AppDirNames[i] : i \in 1..MaxApps}

\* The position of a directory name in alphabetical order.
Rank(n) == CHOOSE i \in 1..Len(AppDirNames) : AppDirNames[i] = n

\* The orders in which a set of directories can be listed.
Listings(D) ==
    {l \in [1..Cardinality(D) -> D] : \A i, k \in 1..Cardinality(D) : l[i] = l[k] => i = k}

Executors == {"@nx/next:build", "@nrwl/next:build", "@nx/webpack:webpack"}

BasicTargets == JObj([build |-> JObj([executor |-> JStr("@nx/webpack:webpack")])])

ValidProject == JsonFile(JObj([targets |-> BasicTargets]))

InvalidProject == JsonFile(EmptyObj)

CoarseProjectFiles == {Missing, ValidProject, InvalidProject}

CoarsePackageFiles ==
    {Missing,
     JsonFile(JObj([nx |-> EmptyObj])),
     JsonFile(JObj([nx |-> JObj([targets |-> BasicTargets])])),
     JsonFile(JObj([nx |-> JObj([targets |-> JNull])]))}

NoEnv == [v \in {NX_APP_NAME_ENV_VAR} |-> None]

EnvWith(n) == [v \in {NX_APP_NAME_ENV_VAR} |-> Some(n)]

\* The files one directory of apps/ can hold in a resolution snapshot.
CoarseAppFiles ==
    {AppFiles(pr, pk) : pr \in CoarseProjectFiles, pk \in CoarsePackageFiles}

\* The nx.json files of the resolution snapshots.
ResolveNxJsonFiles ==
    {Missing, Garbage, JsonFile(EmptyObj),
     JsonFile(JObj([defaultProject |-> JStr("web")])),
     JsonFile(JObj([default_project |-> JStr("web")])),
     JsonFile(JObj([defaultProject |-> JNull])),
     JsonFile(JObj([defaultProject |-> JNum(1)]))}

\* A resolution snapshot.
ResolveApp(nx, dir, files, l) ==
    [nx_json |-> nx, apps_dir |-> dir, apps |-> files, listing |-> l, dlx |-> "npx"]

ResolveEnvs == {NoEnv, EnvWith("api"), EnvWith("ghost")}

\* The JSON values tried as options.outputPath.
OutputPathValues == {JStr("build/out"), JNull, JNum(1), JBool(FALSE), JArr, EmptyObj}

\* The strings tried as options.main.
Mains == {"src/main.ts", "server", "app.server.mjs", ".env", "src/", "..", ""}

\* An object with the key k when present is TRUE, empty otherwise.
Field(k, present, v) == IF present THEN k :> v ELSE <<>>

\* The values tried under the key options of the build target; Absent
\* stands for a missing key.
Absent == [t |-> "absent"]

OptionsValues ==
    {Absent, JNull, EmptyObj, JStr("x"),
     JObj([output_path |-> JStr("build/out")]),
     JObj([output_path |-> JStr("build/out"), outputPath |-> JStr("build/out")]),
     JObj([main |-> JNum(1)]),
     JObj([outputPath |-> JStr("build/out"), main |-> JStr("src/main.ts")]),
     JObj([outputPath |-> JStr("build/out"), main |-> JStr("..")])}
    \cup {JObj([outputPath |-> v]) : v \in OutputPathValues}
    \cup {JObj([main |-> JStr(m)]) : m \in Mains}

ConfigurationsValues ==
    {Absent, EmptyObj, JStr("x"),
     JObj([production |-> JNull]),
     JObj([production |-> JBool(FALSE)]),
     JObj([production |-> EmptyObj])}

StartValues ==
    {Absent, JNull, EmptyObj}
    \cup {JObj(("executor" :> JStr("@nx/js:node"))
               @@ Field("configurations", c # Absent, c)) : c \in ConfigurationsValues}

\* A targets object with the given executor, options and start target.
TargetsJson(ex, o, st) ==
    JObj(("build" :> JObj(("executor" :> JStr(ex)) @@ Field("options", o # Absent, o)))
         @@ Field("start", st # Absent, st))

\* The values tried as targets: every start target against every executor
\* with and without a main option, and every options value against every
\* executor without a start target.
TargetsValues ==
    {JNull, EmptyObj, JStr("x")}
    \cup {TargetsJson(ex, o, st) :
            ex \in Executors,
            o \in {Absent, JObj([main |-> JStr("src/main.ts")])},
            st \in StartValues}
    \cup {TargetsJson(ex, o, Absent) : ex \in Executors, o \in OptionsValues}

RichProjectFiles ==
    {Garbage} \cup {JsonFile(JObj([targets |-> t])) : t \in TargetsValues}

RichPackageFiles ==
    {Garbage, JsonFile(EmptyObj), JsonFile(JObj([nx |-> JStr("x")]))}
    \cup {JsonFile(JObj([nx |-> JObj([targets |-> t])])) : t \in TargetsValues}

\* Snapshots for config loading and command synthesis: the one directory
\* apps/api, with every tried config in one of its two files.
ConfigFiles ==
    {AppFiles(pr, pk) : pr \in RichProjectFiles,
                        pk \in CoarsePackageFiles \ {JsonFile(JObj([nx |-> EmptyObj]))}}
    \cup {AppFiles(pr, pk) : pr \in {Missing, InvalidProject}, pk \in RichPackageFiles}

\* The nx.json files of the config snapshots.
ConfigNxJsonFiles ==
    {Missing, JsonFile(EmptyObj), JsonFile(JObj([defaultProject |-> JStr("api")]))}

ConfigApp(nx, files) ==
    [nx_json |-> nx, apps_dir |-> TRUE, apps |-> [d \in {"api"} |-> files],
     listing |-> <<"api">>, dlx |-> "npx"]

ConfigEnvs == {NoEnv, EnvWith("api"), EnvWith("ghost")}

\* The app names the loading functions are called with.
CallNames == {"api", "ghost"}

(***************************************************************************)
(* The calls.                                                              *)
(***************************************************************************)
NoRoundTrip ==
    /\ value = [ty |-> "none"]
    /\ encoded = None
    /\ decoded = None

Init ==
    /\ \E nx \in ConfigNxJsonFiles, files \in ConfigFiles :
          app = ConfigApp(nx, files)
    /\ env \in ConfigEnvs
    /\ call = [fn |-> "none"]
    /\ ret = None
    /\ NoRoundTrip

\* Any set of directories under apps/, listed in any order, each with any
\* of the coarse files; apps/ itself may be absent when it has none.
InitResolve ==
    /\ \E D \in SUBSET DirNames :
          \E files \in [D -> CoarseAppFiles], l \in Listings(D),
             nx \in ResolveNxJsonFiles, dir \in (IF D = {} THEN BOOLEAN ELSE {TRUE}) :
              app = ResolveApp(nx, dir, files, l)
    /\ env \in ResolveEnvs
    /\ call = [fn |-> "none"]
    /\ ret = None
    /\ NoRoundTrip

Returns(c, r) ==
    /\ call' = c
    /\ ret' = r
    /\ UNCHANGED <<app, env, value, encoded, decoded>>

CallGetNxAppName ==
    Returns([fn |-> "get_nx_app_name"], get_nx_app_name(app, env))

CallIsNxMonorepo ==
    Returns([fn |-> "is_nx_monorepo"], is_nx_monorepo(app, env))

CallGetNxProjectJsonForApp ==
    \E n \in CallNames :
        Returns([fn |-> "get_nx_project_json_for_app", nx_app_name |-> n],
                get_nx_project_json_for_app(app, n))

CallGetNxOutputPath ==
    \E n \in CallNames :
        Returns([fn |-> "get_nx_output_path", nx_app_name |-> n],
                get_nx_output_path(app, n))

CallGetNxBuildCmd ==
    Returns([fn |-> "get_nx_build_cmd"], get_nx_build_cmd(app, env))

CallGetNxStartCmd ==
    Returns([fn |-> "get_nx_start_cmd"], get_nx_start_cmd(app, env))

Next ==
    \/ CallGetNxAppName
    \/ CallIsNxMonorepo
    \/ CallGetNxProjectJsonForApp
    \/ CallGetNxOutputPath
    \/ CallGetNxBuildCmd
    \/ CallGetNxStartCmd

NextResolve ==
    \/ CallGetNxAppName
    \/ CallIsNxMonorepo
    \/ CallGetNxBuildCmd

Spec == Init /\ [][Next]_vars

SpecResolve == InitResolve /\ [][NextResolve]_vars

(***************************************************************************)
(* Encoding and decoding of the configuration types (serde_json::to_value  *)
(* then serde_json::from_value).                                           *)
(***************************************************************************)
\* The values of Option<Value> fields.
OptJsonValues == {None, Some(JNull), Some(JStr("dist/out")), Some(EmptyObj)}

NxJsonValues == {[default_project |-> d] : d \in {None, Some("web")}}

NxTargetOptionsValues ==
    {[output_path |-> o, main |-> m] : o \in OptJsonValues, m \in {None, Some("src/main.ts")}}

ConfigurationValues == {[production |-> p] : p \in OptJsonValues}

TargetValues ==
    {[executor |-> ex, options |-> o, configurations |-> c] :
        ex \in {"@nx/next:build", "@nx/js:tsc"},
        o \in {None} \cup {Some(x) : x \in NxTargetOptionsValues},
        c \in {None} \cup {Some(x) : x \in ConfigurationValues}}

StartTargetValues ==
    {[executor |-> "@nx/js:node", options |-> None, configurations |-> c] :
        c \in {None} \cup {Some(x) : x \in ConfigurationValues}}

ProjectJsonValues ==
    {[targets |-> [build |-> b, start |-> st]] :
        b \in TargetValues, st \in {None} \cup {Some(x) : x \in StartTargetValues}}

\* serde_json::to_value of a value of the type ty
Encode(ty, x) ==
    CASE ty = "NxJson" -> Ser_NxJson(x)
      [] ty = "ProjectJson" -> Ser_ProjectJson(x)
      [] ty = "Target" -> Ser_Target(x)

\* serde_json::from_value into the type ty
Decode(ty, j) ==
    CASE ty = "NxJson" -> De_NxJson(j)
      [] ty = "ProjectJson" -> De_ProjectJson(j)
      [] ty = "Target" -> De_Target(j)

InitRoundTrip ==
    /\ app = ConfigApp(Missing, AppFiles(Missing, Missing))
    /\ env = NoEnv
    /\ call = [fn |-> "none"]
    /\ ret = None
    /\ \/ \E x \in NxJsonValues : value = [ty |-> "NxJson", v |-> x]
       \/ \E x \in ProjectJsonValues : value = [ty |-> "ProjectJson", v |-> x]
       \/ \E x \in TargetValues : value = [ty |-> "Target", v |-> x]
    /\ encoded = None
    /\ decoded = None

DoEncode ==
    /\ ~encoded.some
    /\ encoded' = Some(Encode(value.ty, value.v))
    /\ UNCHANGED <<app, env, call, ret, value, decoded>>

DoDecode ==
    /\ encoded.some
    /\ ~decoded.some
    /\ decoded' = Some(Decode(value.ty, encoded.v))
    /\ UNCHANGED <<app, env, call, ret, value, encoded>>

NextRoundTrip ==
    \/ DoEncode
    \/ DoDecode

SpecRoundTrip == InitRoundTrip /\ [][NextRoundTrip]_vars

(***************************************************************************)
(* What the claims speak of.                                               *)
(***************************************************************************)
\* The override, if set.
Override == env[NX_APP_NAME_ENV_VAR]

\* The default project of nx.json, if nx.json parses and has one.
RootDefaultProject ==
    IF app.nx_json.st = "json" /\ De_NxJson(app.nx_json.json).ok
    THEN De_NxJson(app.nx_json.json).v.default_project
    ELSE None

\* The subdirectories of apps/ with a project.json file or a package.json
\* containing nx.targets.
Candidates ==
    {d \in DOMAIN app.apps :
        \/ app.apps[d]["project.json"].st # "missing"
        \/ /\ app.apps[d]["package.json"].st = "json"
           /\ NxTargets(app.apps[d]["package.json"].json).some}

\* The alphabetically first candidate.
FirstCandidate == CHOOSE d \in Candidates : \A o \in Candidates : Rank(d) <= Rank(o)

\* The legacy config of the app n: apps/<n>/project.json read as a ProjectJson.
Legacy(n) == read_json_ProjectJson(app, <<"apps", n, "project.json">>)

\* apps/<n>/package.json
Manifest(n) == FileAt(app, <<"apps", n, "package.json">>)

\* nx.targets of the manifest of n, if the manifest parses and has it.
ManifestTargets(n) ==
    IF Manifest(n).st = "json" THEN NxTargets(Manifest(n).json) ELSE None

\* The config of the app n loads: from the legacy file or from nx.targets.
ConfigLoads(n) ==
    \/ Legacy(n).ok
    \/ ManifestTargets(n).some /\ De_Targets(ManifestTargets(n).v).ok

\* The config of n that load_project_config is to return when it loads.
LoadedConfig(n) ==
    IF Legacy(n).ok THEN Legacy(n).v
    ELSE [targets |-> De_Targets(ManifestTargets(n).v).v]

\* The JSON of the targets the config of n was read from.
LoadedTargetsJson(n) ==
    IF Legacy(n).ok THEN FileAt(app, <<"apps", n, "project.json">>).json.o["targets"]
    ELSE ManifestTargets(n).v

\* The root marker exists, a name resolves and its config loads.
IsMonorepo ==
    /\ app.nx_json.st # "missing"
    /\ get_nx_app_name(app, env).some
    /\ ConfigLoads(get_nx_app_name(app, env).v)

\* The output path of the loaded config of n.
OutputPathOf(n) ==
    LET options == LoadedConfig(n).targets.build.options IN
    IF options.some /\ options.v.output_path.some /\ options.v.output_path.v.t = "str"
    THEN options.v.output_path.v.s
    ELSE "dist/apps/" \o n

\* The error is one that the function returned (a panic returns nothing).
ReturnedError(r) == ~r.ok /\ r.e.kind # "Panic"

(***************************************************************************)
(* C1                                                                      *)
(***************************************************************************)
\* C1: get_nx_app_name follows strict precedence: the override when set,
\* whatever nx.json and apps/ contain; otherwise the default project of a
\* parsing nx.json, whatever apps/ contains; otherwise the result of the
\* scan of apps/; None only when all three yield nothing.
C1_Precedence ==
    call.fn = "get_nx_app_name" =>
        IF Override.some THEN ret = Some(Override.v)
        ELSE IF RootDefaultProject.some THEN ret = Some(RootDefaultProject.v)
        ELSE /\ ret.some => ret.v \in Candidates
             /\ ~ret.some <=> Candidates = {}

\* The override wins over a different default project and a different
\* scan result.
C1_Witness ==
    /\ call.fn = "get_nx_app_name"
    /\ Override = Some("api")
    /\ RootDefaultProject = Some("web")
    /\ Candidates = {"web"}
    /\ ret = Some("api")

(***************************************************************************)
(* C2                                                                      *)
(***************************************************************************)
\* C2: is_nx_monorepo is true iff nx.json exists, a name resolves and the
\* config of that name loads; it returns a boolean in every case.
C2_IsMonorepoIff ==
    call.fn = "is_nx_monorepo" =>
        /\ ret \in BOOLEAN
        /\ ret <=> IsMonorepo

\* A name found by the scan whose config does not load: no monorepo.
C2_Witness ==
    /\ call.fn = "is_nx_monorepo"
    /\ app.nx_json.st # "missing"
    /\ ~Override.some
    /\ ~RootDefaultProject.some
    /\ Candidates # {}
    /\ ret = FALSE

(***************************************************************************)
(* C3                                                                      *)
(***************************************************************************)
\* C3: get_nx_project_json_for_app returns the legacy config whenever
\* project.json parses as one, whatever the manifest holds; otherwise the
\* manifest alone decides: Ok with nx.targets when present and
\* deserializable, a ParseError when present and not deserializable,
\* NotFound when the manifest is missing, unparseable or without nx.targets.
C3_LoadProjectConfig ==
    call.fn = "get_nx_project_json_for_app" =>
        LET n == call.nx_app_name IN
        IF Legacy(n).ok THEN ret = Ok(Legacy(n).v)
        ELSE IF ManifestTargets(n).some
             THEN IF De_Targets(ManifestTargets(n).v).ok
                  THEN ret = Ok([targets |-> De_Targets(ManifestTargets(n).v).v])
                  ELSE ~ret.ok /\ ret.e.kind = "ParseError"
        ELSE ~ret.ok /\ ret.e.kind = "NotFound"

\* The legacy file wins over a manifest whose nx.targets is malformed.
C3_Witness ==
    /\ call.fn = "get_nx_project_json_for_app"
    /\ Legacy(call.nx_app_name).ok
    /\ ManifestTargets(call.nx_app_name).some
    /\ ~De_Targets(ManifestTargets(call.nx_app_name).v).ok
    /\ ret.ok

(***************************************************************************)
(* C4                                                                      *)
(***************************************************************************)
\* The command the rules a-e give for the loaded config of n; NoCommand
\* when rule d applies and main has no file stem.
NoCommand == "(none)"

RuleCommand(n) ==
    LET cfg == LoadedConfig(n).targets
        stem == file_stem(Chars(cfg.build.options.v.main.v))
    IN IF cfg.start.some /\ cfg.start.v.configurations.some
          /\ cfg.start.v.configurations.v.production.some
       THEN app.dlx \o " nx run " \o n \o ":start:production"
       ELSE IF cfg.start.some
       THEN app.dlx \o " nx run " \o n \o ":start"
       ELSE IF cfg.build.executor \in {"@nx/next:build", "@nrwl/next:build"}
       THEN "cd " \o OutputPathOf(n) \o " && npm run start"
       ELSE IF cfg.build.options.some /\ cfg.build.options.v.main.some
       THEN IF stem.some
            THEN "node " \o OutputPathOf(n) \o "/" \o Join(stem.v) \o ".js"
            ELSE NoCommand
       ELSE "node " \o OutputPathOf(n) \o "/index.js"

\* C4: whenever is_nx_monorepo is true, get_nx_start_cmd returns exactly
\* one command, that of the first of the rules a-e whose guard holds.
C4_StartCommandRules ==
    call.fn = "get_nx_start_cmd" /\ IsMonorepo =>
        /\ ret.ok
        /\ ret.v.some
        /\ ret.v.v = RuleCommand(get_nx_app_name(app, env).v)

(***************************************************************************)
(* C5                                                                      *)
(***************************************************************************)
\* The start target of the loaded targets JSON has a configurations object
\* with the key production.
HasProductionKey(n) ==
    LET start == Get(LoadedTargetsJson(n), "start")
        configurations == AndThenGet(start, "configurations")
    IN AndThenGet(configurations, "production").some

\* C5: whenever the start target's configurations contains the key
\* production, with any JSON value, the result is the :start:production
\* command.
C5_ProductionKeyPresence ==
    (/\ call.fn = "get_nx_start_cmd"
     /\ IsMonorepo
     /\ HasProductionKey(get_nx_app_name(app, env).v))
    => ret = Ok(Some(app.dlx \o " nx run " \o get_nx_app_name(app, env).v
                     \o ":start:production"))

(***************************************************************************)
(* C6                                                                      *)
(***************************************************************************)
\* C6: for an app whose config loads, get_nx_output_path is the build
\* target's options.output_path when that is a JSON string and
\* dist/apps/<name> in every other case, never an error.
C6_OutputPath ==
    call.fn = "get_nx_output_path" /\ ConfigLoads(call.nx_app_name) =>
        LET options == LoadedConfig(call.nx_app_name).targets.build.options IN
        IF options.some /\ options.v.output_path.some
           /\ options.v.output_path.v.t = "str"
        THEN ret = Ok(options.v.output_path.v.s)
        ELSE ret = Ok("dist/apps/" \o call.nx_app_name)

\* An output_path that is present and no string gives the default.
C6_Witness ==
    /\ call.fn = "get_nx_output_path"
    /\ ConfigLoads(call.nx_app_name)
    /\ LoadedConfig(call.nx_app_name).targets.build.options.some
    /\ LoadedConfig(call.nx_app_name).targets.build.options.v.output_path.some
    /\ LoadedConfig(call.nx_app_name).targets.build.options.v.output_path.v.t = "num"
    /\ ret = Ok("dist/apps/api")

(***************************************************************************)
(* C7                                                                      *)
(***************************************************************************)
\* C7: with no override and no default project, get_nx_app_name returns
\* the alphabetically first candidate directory of apps/, whatever the
\* order in which the filesystem lists the directories, and None when
\* there is none.
C7_AlphabeticallyFirst ==
    call.fn = "get_nx_app_name" /\ ~Override.some /\ ~RootDefaultProject.some =>
        IF Candidates = {} THEN ret = None ELSE ret = Some(FirstCandidate)

(***************************************************************************)
(* C8                                                                      *)
(***************************************************************************)
\* C8: every failure of get_nx_project_json_for_app for a manifest that
\* has an nx object but no usable targets names both schema generations
\* and the override variable in its message.
C8_FailureMessage ==
    (/\ call.fn = "get_nx_project_json_for_app"
     /\ ~ret.ok
     /\ Manifest(call.nx_app_name).st = "json"
     /\ Get(Manifest(call.nx_app_name).json, "nx").some
     /\ Get(Manifest(call.nx_app_name).json, "nx").v.t = "obj")
    => {"project.json", "package.json", "nx.targets", NX_APP_NAME_ENV_VAR}
           \subseteq ret.e.mentions

(***************************************************************************)
(* C9                                                                      *)
(***************************************************************************)
\* C9: encoding a value of NxJson, ProjectJson or Target and decoding it
\* back yields an equal value.
C9_RoundTrip ==
    decoded.some => decoded.v = Ok(value.v)

(***************************************************************************)
(* C10                                                                     *)
(***************************************************************************)
\* C10: get_nx_start_cmd never returns an error; it returns Ok(None)
\* exactly when is_nx_monorepo is false and Ok(Some(command)) exactly when
\* it is true.
C10_StartCmdTotal ==
    call.fn = "get_nx_start_cmd" =>
        /\ ~ReturnedError(ret)
        /\ ret = Ok(None) <=> ~IsMonorepo
        /\ (ret.ok /\ ret.v.some) <=> IsMonorepo

====
